---- MODULE Spec2Model ----
(***************************************************************************)
(* Mirrors By Reflect management portal (src/app.py): the SKU catalog kept *)
(* in st.session_state.db and persisted wholesale to sku_database.csv, the *)
(* three catalog handlers (Save SKU, Confirm Delete, Confirm Bulk Import)  *)
(* and the container occupancy calculator of the first tab.                *)
(*                                                                         *)
(* Cells of a DataFrame are tagged values, because pandas keeps the type   *)
(* a cell was created with: a text typed in a form stays a str, a column   *)
(* of a CSV file whose cells are all integers is read as integers, and an  *)
(* empty CSV cell is read as NaN.                                          *)
(*                                                                         *)
(* Volumes are fixed-point numbers, Resolution units to the cubic metre,   *)
(* weights are fixed-point numbers, WeightResolution units to the          *)
(* kilogram; the arithmetic is exact (the code's is binary floating point).*)
(***************************************************************************)
EXTENDS Integers, Sequences, FiniteSets, TLC

VARIABLES
    db,             \* st.session_state.db: sequence of rows
    file,           \* the content of DATABASE_FILE
    writable,       \* whether DATABASE_FILE can be written in this run of the app
    msg,            \* the feedback of the last handler (st.success/st.error/st.warning, or an uncaught exception)
    selected_skus,  \* the value of the multiselect "Select SKUs for Shipment"
    qty,            \* the values of the number inputs q_<sku>
    tab1_status,    \* how the last script run left the calculator tab
    tab1_warning,   \* the st.warning of the calculator tab in the last script run
    shipment_items, \* the purchase order lines of the last script run
    total_cbm,      \* the unrounded total load of the last script run
    metrics         \* the three utilisation metrics of the last script run

vars == <<db, file, writable, msg, selected_skus, qty, tab1_status, tab1_warning,
          shipment_items, total_cbm, metrics>>

-----------------------------------------------------------------------------
(* Bounds *)

\* Longest catalog the handlers may build.
MaxRows == 2
\* Most data rows of an uploaded bulk file.
MaxBulkRows == 2
\* Largest quantity entered in a number input.
MaxQty == 3

-----------------------------------------------------------------------------
(* Cell values *)

Str(s) == [kind |-> "str", text |-> s]
\* An integer cell, held by its decimal text.
Num(s) == [kind |-> "int", text |-> s]
NaN == [kind |-> "nan", text |-> ""]

\* The texts read_csv reads as integers, and those it reads as missing.
IntTexts == {"7"}
NaTexts == {""}

\* Python truthiness of a str: only the empty string is false.
Truthy(s) == s # ""

\* Elementwise == of pandas: NaN equals nothing, a str never equals an int.
SkuEq(a, b) == a.kind # "nan" /\ b.kind # "nan" /\ a = b

\* The text to_csv writes for a cell: NaN as the empty field.
CellText(v) == IF v.kind = "nan" THEN "" ELSE v.text

Range(s) == {s[i] : i \in 1..Len(s)}

\* df['SKU'].unique(): the distinct SKU values in order of first appearance (NaN once).
RECURSIVE unique(_)
unique(df) ==
    IF Len(df) = 0 THEN <<>>
    ELSE LET init == unique(SubSeq(df, 1, Len(df) - 1))
             last == df[Len(df)].SKU
         IN IF last \in Range(init) THEN init ELSE Append(init, last)

-----------------------------------------------------------------------------
(* Catalog store: DATABASE_FILE, load_data, save_data *)

NoFile == [exists |-> FALSE, header |-> FALSE, rows |-> <<>>]
\* A file of zero bytes.
EmptyFile == [exists |-> TRUE, header |-> FALSE, rows |-> <<>>]

\* df.to_csv(index=False): the header line and one line of texts per row.
\* Numeric fields are written as decimal text; a numeral stands for itself.
to_csv(df) ==
    [exists |-> TRUE, header |-> TRUE,
     rows |-> [i \in 1..Len(df) |->
                 [Item |-> CellText(df[i].Item), SKU |-> CellText(df[i].SKU),
                  L_mm |-> df[i].L_mm, W_mm |-> df[i].W_mm, H_mm |-> df[i].H_mm,
                  Weight_kg |-> df[i].Weight_kg]]]

\* pd.read_csv: an error for an absent or zero-byte source; otherwise every
\* column gets one type: integers when every cell is an integer text,
\* else the texts themselves, with the empty cell read as NaN.
read_csv(f) ==
    IF ~f.exists THEN [err |-> "FileNotFoundError", df |-> <<>>]
    ELSE IF ~f.header THEN [err |-> "EmptyDataError", df |-> <<>>]
    ELSE LET rows == f.rows
             numeric == Len(rows) > 0 /\ \A i \in 1..Len(rows) : rows[i].SKU \in IntTexts
             Cell(t) == IF t \in NaTexts THEN NaN ELSE Str(t)
         IN [err |-> "",
             df |-> [i \in 1..Len(rows) |->
                       [Item |-> Cell(rows[i].Item),
                        SKU |-> IF numeric THEN Num(rows[i].SKU) ELSE Cell(rows[i].SKU),
                        L_mm |-> rows[i].L_mm, W_mm |-> rows[i].W_mm, H_mm |-> rows[i].H_mm,
                        Weight_kg |-> rows[i].Weight_kg]]]

\* load_data: both errors degrade to the empty catalog.
load_data(f) == read_csv(f).df

\* save_data: the file after the call, when the target can be written.
save_data(df) == to_csv(df)

-----------------------------------------------------------------------------
(* Catalog editor and bulk merge, as functions of the DataFrame *)

\* Faulty variant of Upsert: the new row is appended and the old one stays.
UpsertAppend(df, new_row) == Append(df, new_row)

\* Lines 118-119: db[db['SKU'] != f_sku], then concat with the new row.
Upsert(df, new_row) ==
    LET Other(r) == ~SkuEq(r.SKU, new_row.SKU)
    IN Append(SelectSeq(df, Other), new_row)

\* Faulty variant of DeleteSku: == for !=, the other rows go.
DeleteSkuInverted(df, del_sku) ==
    LET Same(r) == SkuEq(r.SKU, del_sku)
    IN SelectSeq(df, Same)

\* Line 131: db[db['SKU'] != del_sku].
DeleteSku(df, del_sku) ==
    LET Other(r) == ~SkuEq(r.SKU, del_sku)
    IN SelectSeq(df, Other)

\* Faulty variant of drop_duplicates: keep='first'.
drop_duplicates_first(df) ==
    LET Kept == {i \in 1..Len(df) : ~\E j \in 1..(i - 1) : df[j].SKU = df[i].SKU}
        RECURSIVE Pick(_)
        Pick(i) == IF i > Len(df) THEN <<>>
                   ELSE IF i \in Kept THEN <<df[i]>> \o Pick(i + 1)
                   ELSE Pick(i + 1)
    IN Pick(1)

\* drop_duplicates(subset=['SKU'], keep='last'): a row stays when no later
\* row has its SKU (two missing SKUs count as duplicates).
drop_duplicates(df) ==
    LET Kept == {i \in 1..Len(df) : ~\E j \in (i + 1)..Len(df) : df[j].SKU = df[i].SKU}
        RECURSIVE Pick(_)
        Pick(i) == IF i > Len(df) THEN <<>>
                   ELSE IF i \in Kept THEN <<df[i]>> \o Pick(i + 1)
                   ELSE Pick(i + 1)
    IN Pick(1)

\* Faulty variant of BulkMerge: the concatenation alone.
BulkMergeNoDedup(df, bulk_df) == df \o bulk_df

\* Line 163: pd.concat([db, bulk_df]).drop_duplicates(subset=['SKU'], keep='last').
BulkMerge(df, bulk_df) == drop_duplicates(df \o bulk_df)

-----------------------------------------------------------------------------
(* Shipping calculator *)

\* Fixed-point units to the cubic metre and to the kilogram.
Resolution == 10^5
WeightResolution == 10^3

\* Line 46.
containers ==
    << [name |-> "20ft", cap |-> 28 * Resolution],
       [name |-> "40ft", cap |-> 58 * Resolution],
       [name |-> "40ft HC", cap |-> 65 * Resolution] >>

\* Python's round(x, n) on an exact value: to the nearest multiple of m, ties to even.
Round(x, m) ==
    LET q == x \div m
        r == x % m
    IN IF 2 * r < m THEN q * m
       ELSE IF 2 * r > m THEN (q + 1) * m
       ELSE IF q % 2 = 0 THEN q * m ELSE (q + 1) * m

\* Faulty variant of unit_cbm: the unit volume rounded to 4 decimals before use.
unit_cbm_rounded(row) ==
    LET step == 100
    IN Round((((row.L_mm * row.W_mm) \div step) * row.H_mm) \div step, Resolution \div 10^4)

\* Line 64: (L_mm * W_mm * H_mm) / 1_000_000_000, in Resolution units.  The
\* division by 10^9 / Resolution = 100 * 100 is taken in two steps to stay
\* within 32-bit integers; it is exact for the dimensions used here.
unit_cbm(row) ==
    LET step == 100
    IN (((row.L_mm * row.W_mm) \div step) * row.H_mm) \div step

\* Lines 57-75: the loop over selected_skus.  The lookup .iloc[0] of a SKU
\* with no row raises IndexError, which ends the script run.
RECURSIVE Loop(_, _, _, _, _, _)
Loop(df, sel, q, i, items, total) ==
    IF i > Len(sel) THEN [status |-> "ok", shipment_items |-> items, total_cbm |-> total]
    ELSE LET sku == sel[i]
             Match(r) == SkuEq(r.SKU, sku)
             found == SelectSeq(df, Match)
         IN IF Len(found) = 0
            THEN [status |-> "IndexError", shipment_items |-> items, total_cbm |-> total]
            ELSE LET row == found[1]
                     item_total_cbm == unit_cbm(row) * q[sku]
                     line == [SKU |-> sku, Item |-> row.Item, Quantity |-> q[sku],
                              UnitCBM |-> Round(unit_cbm(row), Resolution \div 10^4),
                              TotalCBM |-> Round(item_total_cbm, Resolution \div 10^4),
                              TotalWeight |-> Round(row.Weight_kg * q[sku], WeightResolution \div 10^2)]
                 IN Loop(df, sel, q, i + 1, Append(items, line), total + item_total_cbm)

\* Faulty variant of Color: < for <=.
ColorStrict(util) == IF util.num < 100 * util.den THEN "normal" ELSE "inverse"

\* Line 84: "normal" if util <= 100 else "inverse", util = (total_cbm / cap) * 100
\* held as the fraction num / den.
Color(util) == IF util.num <= 100 * util.den THEN "normal" ELSE "inverse"

\* Lines 82-85: one metric per container.
Metrics(total) ==
    [i \in 1..Len(containers) |->
        LET cap == containers[i].cap
            util == [num |-> total * 100, den |-> cap]
        IN [name |-> containers[i].name, util |-> util,
            delta |-> cap - total, delta_color |-> Color(util)]]

\* Lines 48-97: the calculator tab of one script run.
RenderTab1(df, sel, q) ==
    IF Len(df) = 0
    THEN [status |-> "empty", warning |-> "Your database is empty.",
          shipment_items |-> <<>>, total_cbm |-> 0, metrics |-> <<>>]
    ELSE IF Len(sel) = 0
    THEN [status |-> "idle", warning |-> "",
          shipment_items |-> <<>>, total_cbm |-> 0, metrics |-> <<>>]
    ELSE LET out == Loop(df, sel, q, 1, <<>>, 0)
         IN [status |-> out.status, warning |-> "",
             shipment_items |-> out.shipment_items, total_cbm |-> out.total_cbm,
             metrics |-> IF out.status = "ok" THEN Metrics(out.total_cbm) ELSE <<>>]

-----------------------------------------------------------------------------
(* Inputs *)

\* What the operator types in the SKU code field.
FormSkus == {"", " ", "A", "7"}

\* The other fields of the form (dimensions in mm, weight in WeightResolution units).
FormDetails ==
    { [Item |-> "M", L_mm |-> 1000, W_mm |-> 1000, H_mm |-> 1000, Weight_kg |-> 1000],
      [Item |-> "", L_mm |-> 50, W_mm |-> 20, H_mm |-> 10, Weight_kg |-> 2000] }

\* The data lines an uploaded file is made of: a SKU code and the fields above
\* (every line drawn here carries a SKU code; the Item cell may be empty).
BulkLines ==
    { [Item |-> f.Item, SKU |-> s, L_mm |-> f.L_mm, W_mm |-> f.W_mm, H_mm |-> f.H_mm,
       Weight_kg |-> f.Weight_kg] : s \in {"A", "7"}, f \in FormDetails }

RECURSIVE SeqsUpTo(_, _)
SeqsUpTo(S, n) ==
    IF n = 0 THEN {<<>>}
    ELSE LET shorter == SeqsUpTo(S, n - 1)
         IN shorter \cup {Append(q, x) : q \in shorter, x \in S}

\* The uploads: a file of zero bytes, or a header and up to MaxBulkRows lines.
Uploads ==
    {EmptyFile} \cup
    {[exists |-> TRUE, header |-> TRUE, rows |-> r] : r \in SeqsUpTo(BulkLines, MaxBulkRows)}

\* What DATABASE_FILE may hold when the app starts: nothing, zero bytes, or
\* what an earlier run saved.
InitFiles ==
    { NoFile, EmptyFile, to_csv(<<>>),
      to_csv(<< [Item |-> Str("M"), SKU |-> Str("7"), L_mm |-> 1000, W_mm |-> 1000,
                 H_mm |-> 1000, Weight_kg |-> 1000] >>) }

\* The catalog of the calculator runs.
CalcFile ==
    to_csv(<< [Item |-> Str("Arch"), SKU |-> Str("A"), L_mm |-> 4000, W_mm |-> 3500,
               H_mm |-> 2000, Weight_kg |-> 1000],
              [Item |-> Str("Box"), SKU |-> Str("B"), L_mm |-> 1000, W_mm |-> 1000,
               H_mm |-> 1000, Weight_kg |-> 2000],
              [Item |-> Str("Clip"), SKU |-> Str("C"), L_mm |-> 50, W_mm |-> 20,
               H_mm |-> 10, Weight_kg |-> 12],
              [Item |-> Str("Door"), SKU |-> Str("D"), L_mm |-> 3000, W_mm |-> 3000,
               H_mm |-> 1000, Weight_kg |-> 500] >>)

-----------------------------------------------------------------------------
(* Feedback *)

NoMsg == [call |-> "none", text |-> "", arg |-> Str("")]
Success(text, arg) == [call |-> "st.success", text |-> text, arg |-> arg]
Error(text, arg) == [call |-> "st.error", text |-> text, arg |-> arg]
Warning(text, arg) == [call |-> "st.warning", text |-> text, arg |-> arg]
\* An exception no handler catches: the script run ends with it.
Uncaught(name) == [call |-> "exception", text |-> name, arg |-> Str("")]

-----------------------------------------------------------------------------
(* Script runs *)

\* The widget values a rerun starts from once the catalog is df.  With an
\* empty catalog the multiselect is not rendered and its value is dropped;
\* with other options than before, the framework may keep the value or
\* rebuild the widget with its default, the empty selection.
SelectionsAfter(df) ==
    IF Len(df) = 0 THEN {<<>>}
    ELSE IF unique(df) = unique(db) THEN {selected_skus}
    ELSE {selected_skus, <<>>}

\* The number inputs of the SKUs no longer selected are dropped.
QtyAfter(sel) == [s \in Range(sel) |-> qty[s]]

\* The calculator tab as one script run over (df, sel, q) leaves it.
Tab1(df, sel, q) ==
    LET out == RenderTab1(df, sel, q)
    IN /\ tab1_status' = out.status
       /\ tab1_warning' = out.warning
       /\ shipment_items' = out.shipment_items
       /\ total_cbm' = out.total_cbm
       /\ metrics' = out.metrics

\* st.rerun() after a handler changed the catalog to df.
RerunWith(df) ==
    \E sel \in SelectionsAfter(df) :
        /\ selected_skus' = sel
        /\ qty' = QtyAfter(sel)
        /\ Tab1(df, sel, QtyAfter(sel))

\* A click runs the script from the top: the tabs after the calculator are
\* rendered, and their handlers run, only when the calculator does not raise.
TabsRendered == RenderTab1(db, selected_skus, qty).status # "IndexError"

\* A script run that ends without st.rerun(): the calculator was rendered
\* from the state before the handler.
NoRerun ==
    /\ Tab1(db, selected_skus, qty)
    /\ UNCHANGED <<selected_skus, qty>>

-----------------------------------------------------------------------------
(* Actions *)

FirstRun ==
    /\ msg = NoMsg
    /\ selected_skus = <<>>
    /\ qty = <<>>
    /\ LET out == RenderTab1(db, <<>>, <<>>)
       IN /\ tab1_status = out.status
          /\ tab1_warning = out.warning
          /\ shipment_items = out.shipment_items
          /\ total_cbm = out.total_cbm
          /\ metrics = out.metrics

\* Lines 37-38: the first script run of a session loads the catalog.
Init ==
    /\ file \in InitFiles
    /\ writable \in BOOLEAN
    /\ db = load_data(file)
    /\ FirstRun

\* Lines 37-38 again: a new session (a new browser tab, a restart) has no
\* 'db' in its state and loads the file.
SessionStart ==
    /\ db' = load_data(file)
    /\ msg' = NoMsg
    /\ selected_skus' = <<>>
    /\ qty' = <<>>
    /\ Tab1(load_data(file), <<>>, <<>>)
    /\ UNCHANGED <<file, writable>>

\* Line 117: the row built from the form's fields.
NewRow(f_sku, f) ==
    [Item |-> Str(f.Item), SKU |-> Str(f_sku), L_mm |-> f.L_mm,
     W_mm |-> f.W_mm, H_mm |-> f.H_mm, Weight_kg |-> f.Weight_kg]

\* Lines 115-124: "Save SKU".
SaveSku(f_sku, f) ==
    /\ TabsRendered
    /\ IF Truthy(f_sku)
       THEN LET df == Upsert(db, NewRow(f_sku, f))
            IN /\ Len(df) <= MaxRows
               /\ db' = df
               /\ IF writable
                  THEN /\ file' = save_data(df)
                       /\ msg' = Success("SKU saved", Str(f_sku))
                       /\ RerunWith(df)
                  ELSE /\ msg' = Uncaught("OSError")
                       /\ file' = file
                       /\ NoRerun
       ELSE /\ msg' = Error("SKU Code is required.", Str(f_sku))
            /\ UNCHANGED <<db, file>>
            /\ NoRerun
    /\ UNCHANGED writable

\* Lines 128-134: "Confirm Delete", del_sku chosen in the selectbox.
ConfirmDelete(del_sku) ==
    /\ TabsRendered
    /\ Len(db) > 0
    /\ del_sku \in Range(unique(db))
    /\ LET df == DeleteSku(db, del_sku)
       IN /\ db' = df
          /\ IF writable
             THEN /\ file' = save_data(df)
                  /\ msg' = Warning("SKU removed.", del_sku)
                  /\ RerunWith(df)
             ELSE /\ msg' = Uncaught("OSError")
                  /\ file' = file
                  /\ NoRerun
    /\ UNCHANGED writable

\* Lines 156-169: an upload, then "Confirm Bulk Import".
ConfirmBulkImport(uploaded_file) ==
    /\ TabsRendered
    /\ LET bulk == read_csv(uploaded_file)
       IN IF bulk.err # ""
          THEN /\ msg' = Error("Error processing file", Str(bulk.err))
               /\ UNCHANGED <<db, file>>
               /\ NoRerun
          ELSE LET combined_db == BulkMerge(db, bulk.df)
               IN /\ Len(combined_db) <= MaxRows
                  /\ db' = combined_db
                  /\ IF writable
                     THEN /\ file' = save_data(combined_db)
                          /\ msg' = Success("database updated", Str(""))
                          /\ RerunWith(combined_db)
                     ELSE /\ msg' = Error("Error processing file", Str("OSError"))
                          /\ file' = file
                          /\ NoRerun
    /\ UNCHANGED writable

\* Line 51: the operator adds a SKU of the catalog to the selection.
Select(sku) ==
    /\ Len(db) > 0
    /\ sku \in Range(unique(db)) \ Range(selected_skus)
    /\ selected_skus' = Append(selected_skus, sku)
    /\ qty' = [s \in Range(selected_skus) \cup {sku} |-> IF s = sku THEN 1 ELSE qty[s]]
    /\ Tab1(db, selected_skus', qty')
    /\ UNCHANGED <<db, file, writable, msg>>

\* Line 51: the operator removes a SKU from the selection.
Deselect(sku) ==
    /\ Len(db) > 0
    /\ sku \in Range(selected_skus)
    /\ LET Other(s) == s # sku
       IN selected_skus' = SelectSeq(selected_skus, Other)
    /\ qty' = [s \in Range(selected_skus) \ {sku} |-> qty[s]]
    /\ Tab1(db, selected_skus', qty')
    /\ UNCHANGED <<db, file, writable, msg>>

\* Line 61: the operator enters a quantity (min_value=1).
SetQty(sku, n) ==
    /\ tab1_status = "ok"
    /\ sku \in Range(selected_skus)
    /\ n # qty[sku]
    /\ qty' = [qty EXCEPT ![sku] = n]
    /\ Tab1(db, selected_skus, qty')
    /\ UNCHANGED <<db, file, writable, msg, selected_skus>>

\* The SKU values a selectbox or the multiselect may offer here, and the empty
\* code, which no catalog holds.
SkuValues == {Str(s) : s \in FormSkus} \cup {Num(s) : s \in IntTexts} \cup {Str(s) : s \in {"B", "C", "D"}}

\* The catalog editor over the persisted store.
Next ==
    \/ SessionStart
    \/ \E f_sku \in FormSkus, f \in FormDetails : SaveSku(f_sku, f)
    \/ \E del_sku \in SkuValues : ConfirmDelete(del_sku)
    \/ \E uploaded_file \in Uploads : ConfirmBulkImport(uploaded_file)

Spec == Init /\ [][Next]_vars

\* The calculator over a catalog loaded from CalcFile (a writable store).
CalcInit ==
    /\ file = CalcFile
    /\ writable = TRUE
    /\ db = load_data(file)
    /\ FirstRun

CalcNext ==
    \/ \E sku \in SkuValues : Select(sku)
    \/ \E sku \in SkuValues : Deselect(sku)
    \/ \E sku \in SkuValues, n \in 1..MaxQty : SetQty(sku, n)
    \/ \E del_sku \in SkuValues : ConfirmDelete(del_sku)

CalcSpec == CalcInit /\ [][CalcNext]_vars

-----------------------------------------------------------------------------
(* Properties *)

\* The SKU codes made of whitespace only, or of nothing.
BlankTexts == {"", " "}

Skus(df) == {df[i].SKU : i \in 1..Len(df)}
RowsOf(df, sku) == {i \in 1..Len(df) : df[i].SKU = sku}
Count(df, r) == Cardinality({i \in 1..Len(df) : df[i] = r})
\* The same records, order ignored.
SameRecords(a, b) == Len(a) = Len(b) /\ \A r \in Range(a) \cup Range(b) : Count(a, r) = Count(b, r)
\* At most one record per SKU value.
Unique(df) == \A i, j \in 1..Len(df) : i # j => df[i].SKU # df[j].SKU

\* A step of one of the three catalog handlers.
CatalogOp ==
    \/ \E f_sku \in FormSkus, f \in FormDetails : SaveSku(f_sku, f)
    \/ \E del_sku \in SkuValues : ConfirmDelete(del_sku)
    \/ \E uploaded_file \in Uploads : ConfirmBulkImport(uploaded_file)

C2_RoundTrip ==
    writable => /\ SameRecords(load_data(file), db)
                /\ SameRecords(load_data(save_data(db)), db)

C5_BlankSkuRejected ==
    [][\A f_sku \in FormSkus \cap BlankTexts, f \in FormDetails :
          (writable /\ SaveSku(f_sku, f))
              => (msg'.call = "st.error" /\ db' = db /\ file' = file)]_vars

\* C6: deleting a selected SKU leaves a calculator run that does not raise,
\* warns, and holds the lines of the other selected SKUs.
C6_DeleteThenSelect ==
    [][\A del_sku \in Range(selected_skus) :
          ConfirmDelete(del_sku) =>
              /\ tab1_status' # "IndexError"
              /\ tab1_warning' # ""
              /\ LET Other(s) == s # del_sku
                 IN [i \in 1..Len(shipment_items') |-> shipment_items'[i].SKU]
                        = SelectSeq(selected_skus, Other)]_vars

\* The feedback of a handler whose save_data raised.
SaveFailed(m) == m \in {Uncaught("OSError"), Error("Error processing file", Str("OSError"))}

\* C7: a handler whose save fails leaves st.session_state.db as it was.
C7_FailedSaveAborts == [][SaveFailed(msg') => db' = db]_vars

\* C8: deleting a SKU leaves no record with it and every other record as it
\* was; deleting a SKU the catalog does not hold changes nothing.
C8_DeleteFrame ==
    /\ \A sku \in SkuValues :
          LET after == DeleteSku(db, sku)
          IN /\ RowsOf(after, sku) = {}
             /\ Len(after) = Len(db) - Cardinality(RowsOf(db, sku))
             /\ \A r \in Range(db) : r.SKU # sku => Count(after, r) = Count(db, r)
             /\ sku \notin Skus(db) => after = db
    /\ (msg.call = "st.warning" /\ msg.text = "SKU removed.") => RowsOf(db, msg.arg) = {}

C8_Witness ==
    /\ msg.call = "st.warning"
    /\ msg.text = "SKU removed."
    /\ Len(db) >= 1

\* The volume of a row in Resolution units, L_mm * W_mm * H_mm / 10^4,
\* taken by another route than unit_cbm.
Volume(row) == ((row.L_mm \div 10) * (row.W_mm \div 10) * (row.H_mm \div 10)) \div 10

RECURSIVE SumTo(_, _)
SumTo(F(_), n) == IF n = 0 THEN 0 ELSE SumTo(F, n - 1) + F(n)

\* The first row of the catalog with a SKU.
FirstRow(sku) == db[CHOOSE i \in RowsOf(db, sku) : \A j \in RowsOf(db, sku) : i <= j]

\* C9: a run over selected SKUs of the catalog completes; a completed run
\* has one line per selected SKU, its unit volume
\* L*W*H/10^9 m3 and its total volume the unit volume times the quantity
\* (both shown to 4 decimals), and total_cbm is the sum of the unrounded
\* line totals.
C9_Volumes ==
    /\ (Len(selected_skus) > 0 /\ Range(selected_skus) \subseteq Skus(db)) => tab1_status = "ok"
    /\ tab1_status = "ok" =>
        LET Total(i) == Volume(FirstRow(selected_skus[i])) * qty[selected_skus[i]]
        IN /\ Len(shipment_items) = Len(selected_skus)
           /\ \A i \in 1..Len(selected_skus) :
                 LET sku == selected_skus[i]
                     line == shipment_items[i]
                 IN /\ line.SKU = sku
                    /\ line.Quantity = qty[sku]
                    /\ qty[sku] >= 1
                    /\ line.UnitCBM = Round(Volume(FirstRow(sku)), 10)
                    /\ line.TotalCBM = Round(Total(i), 10)
           /\ total_cbm = SumTo(Total, Len(selected_skus))

\* 1000 x 1000 x 1000 mm is 1.0 m3 and 3.0 m3 at quantity 3, and the total
\* is not the sum of the rounded lines.
C9_Witness ==
    /\ tab1_status = "ok"
    /\ selected_skus = <<Str("B"), Str("C")>>
    /\ shipment_items[1].UnitCBM = Resolution
    /\ shipment_items[1].Quantity = 3
    /\ shipment_items[1].TotalCBM = 3 * Resolution
    /\ total_cbm # shipment_items[1].TotalCBM + shipment_items[2].TotalCBM

\* C10: for the capacities 28, 58 and 65 m3 the remaining volume is
\* cap - total_cbm, negative above capacity and 0 at capacity, where the
\* utilisation is exactly 100; the inverse colour is set exactly when the
\* utilisation exceeds 100, which is exactly when the remainder is negative.
C10_Utilization ==
    tab1_status = "ok" =>
        /\ Len(metrics) = 3
        /\ \A i \in 1..3 :
              LET cap == <<28, 58, 65>>[i] * Resolution
                  m == metrics[i]
              IN /\ m.delta = cap - total_cbm
                 /\ m.util = [num |-> total_cbm * 100, den |-> cap]
                 /\ (m.delta_color = "inverse") <=> (m.util.num > 100 * m.util.den)
                 /\ (m.delta_color = "inverse") <=> (m.delta < 0)
                 /\ total_cbm = cap => (m.util.num = 100 * m.util.den /\ m.delta = 0)
                 /\ total_cbm > cap => m.delta < 0

\* 58 m3: over the 20ft container, exactly the 40ft one, under the 40ft HC.
C10_Witness ==
    /\ tab1_status = "ok"
    /\ total_cbm = 58 * Resolution
    /\ metrics[1].delta < 0 /\ metrics[1].delta_color = "inverse"
    /\ metrics[2].delta = 0 /\ metrics[2].delta_color = "normal"
    /\ metrics[3].delta > 0 /\ metrics[3].delta_color = "normal"

====
